---- MODULE Spec2Model ----
(***************************************************************************)
(* Lowering of a bound Tile program to the Stripe block IR, as done by     *)
(* StripeGenerator in tile/lang/gen_stripe.cc.                             *)
(*                                                                         *)
(* The model follows Run(): the program and main blocks are built, the     *)
(* external declarations are added, every operation is lowered in source   *)
(* order, and the temporaries are declared.  The collaborators that are    *)
(* not part of gen_stripe.cc (parser, binder, constraint gathering,        *)
(* reduction, defractionalization, bound solving) are the environment:     *)
(* what they return is drawn from small sets.                              *)
(***************************************************************************)
EXTENDS Integers, Sequences, FiniteSets, TLC

VARIABLES
  pc,          \* position of Run(): start, inputs, outputs, ops, kernel, temps, done, failed
  runinfo_,    \* RunInfo: input_shapes, output_shapes, const_inputs, program_name
  vars_,       \* Bindings: name -> Binding, built by the constructor
  externals_,  \* std::set<std::string> of externally declared names
  parsed_ops,  \* the operations of parsed_.ops taken by the loop of Run() so far
  program,     \* the root block (its statement list holds main)
  main,        \* the main block
  locals,      \* locals of the Process* call that is between AddKernel and its return
  returned,    \* what Run() handed back to the caller of GenerateStripe
  probe        \* argument and result of a helper applied on its own

vars == <<pc, runinfo_, vars_, externals_, parsed_ops, program, main, locals, returned, probe>>

(***************************************************************************)
(* Bounds of the model.                                                    *)
(***************************************************************************)
MaxOps == 2        \* operations taken from parsed_.ops
MaxCoef == 2       \* largest absolute value of a polynomial coefficient
MaxIndexValue == 2 \* largest value of an index bound

(***************************************************************************)
(* Polynomial<T>: a std::map from index name to coefficient; the constant  *)
(* term is the entry of the empty name.  No entry holds 0.                 *)
(***************************************************************************)
KeyOrder == <<"", "i", "i1", "i2", "i3", "j", "k">>

EmptyPoly == [n \in {} |-> 0]

\* The keys of a map in the order std::map iterates them.
SortedKeys(m) == SelectSeq(KeyOrder, LAMBDA n : n \in DOMAIN m)

\* Polynomial::constant()
PolyConstant(a) == IF "" \in DOMAIN a THEN a[""] ELSE 0

\* Polynomial<int64_t>::operator+= for one term: the entry is erased when it becomes 0.
PolyAddTerm(a, name, c) ==
  LET old == IF name \in DOMAIN a THEN a[name] ELSE 0
      new == old + c
  IN IF new = 0
       THEN [n \in (DOMAIN a) \ {name} |-> a[n]]
       ELSE [n \in (DOMAIN a) \cup {name} |-> IF n = name THEN new ELSE a[n]]

\* Polynomial += integer
PolyAddConst(a, c) == PolyAddTerm(a, "", c)

\* Unary minus
PolyNeg(a) == [n \in DOMAIN a |-> 0 - a[n]]

\* Affine{name}: the index with coefficient 1;  Affine{}: the constant 0.
AffineIndex(name) == [n \in {name} |-> 1]

\* Rational numbers, in lowest terms.
Rat(n, d) == [n |-> n, d |-> d]

(***************************************************************************)
(* Integerize (gen_stripe.cc 453-471).  The result is ok = FALSE when the  *)
(* function throws "Non-integer polynomial in Integerize".                 *)
(***************************************************************************)
\* A variant that leaves the minimum of the index out of the constant term.
IntegerizeTermNoShift(result, name, int_value, bounds) ==
  IF name = ""
    THEN PolyAddConst(result, int_value)
    ELSE IF bounds[name].min # bounds[name].max
           THEN PolyAddTerm(result, name, int_value)
           ELSE result

\* One iteration of the loop over poly.getMap() (457-468), for an integral term.
IntegerizeTerm(result, name, int_value, bounds) ==
  IF name = ""
    THEN PolyAddConst(result, int_value)
    ELSE LET bound == bounds[name]
             shifted == PolyAddConst(result, int_value * bound.min)
         IN IF bound.min # bound.max
              THEN PolyAddTerm(shifted, name, int_value)
              ELSE shifted

RECURSIVE IntegerizeFrom(_, _, _, _)
IntegerizeFrom(poly, bounds, keys, result) ==
  IF keys = <<>>
    THEN [ok |-> TRUE, val |-> result]
    ELSE LET term == poly[Head(keys)]
         IN IF term.d # 1
              THEN [ok |-> FALSE, val |-> EmptyPoly]
              ELSE IntegerizeFrom(poly, bounds, Tail(keys),
                                  IntegerizeTerm(result, Head(keys), term.n, bounds))

Integerize(poly, bounds) == IntegerizeFrom(poly, bounds, SortedKeys(poly), EmptyPoly)

(***************************************************************************)
(* Shapes and bindings.                                                    *)
(***************************************************************************)
\* TensorDimension(stride, size)
TensorDimension(stride, size) == [size |-> size, stride |-> stride]

RECURSIVE ProductFrom(_, _)
ProductFrom(sizes, d) ==
  IF d > Len(sizes) THEN 1 ELSE sizes[d] * ProductFrom(sizes, d + 1)

\* A packed row-major tensor shape with the given dimension sizes.
Shape(sizes) ==
  [type |-> "FLOAT32",
   dims |-> [d \in 1..Len(sizes) |-> TensorDimension(ProductFrom(sizes, d + 1), sizes[d])]]

\* TensorShape::byte_size() == 0: some dimension has size 0.
ByteSizeIsZero(shape) == \E d \in 1..Len(shape.dims) : shape.dims[d].size = 0

TensorBinding(sizes) == [tag |-> "TENSOR", shape |-> Shape(sizes), iconst |-> 0, fconst |-> 0]
IConstBinding(v) == [tag |-> "ICONST", shape |-> Shape(<<>>), iconst |-> v, fconst |-> 0]
FConstBinding(v) == [tag |-> "FCONST", shape |-> Shape(<<>>), iconst |-> 0, fconst |-> v]
TupleBinding == [tag |-> "TUPLE", shape |-> Shape(<<>>), iconst |-> 0, fconst |-> 0]

\* Names in the order std::map<std::string, ...> iterates them.
NameOrder == <<"A", "B", "D", "E", "O", "P", "R", "S", "T", "V", "W", "Z", "n", "u", "x">>

\* The names of a set in map order.
Sorted(names) == SelectSeq(NameOrder, LAMBDA n : n \in names)

\* What BindProgram returns for the programs of the model.
Bound ==
  [name \in {"A", "B", "D", "E", "O", "P", "R", "S", "T", "V", "W", "Z", "n", "u", "x"} |->
     CASE name = "A" -> TensorBinding(<<2, 3>>)
       [] name = "B" -> TensorBinding(<<3, 2>>)
       [] name = "D" -> TensorBinding(<<2, 2>>)
       [] name = "E" -> TensorBinding(<<2, 3>>)
       [] name = "O" -> TensorBinding(<<2, 2>>)
       [] name = "P" -> TensorBinding(<<2, 3>>)
       [] name = "R" -> TensorBinding(<<1, 3>>)
       [] name = "S" -> TensorBinding(<<>>)
       [] name = "T" -> TensorBinding(<<2, 2>>)
       [] name = "V" -> TensorBinding(<<3>>)
       [] name = "W" -> TensorBinding(<<2, 1>>)
       [] name = "Z" -> TensorBinding(<<0, 2>>)
       [] name = "n" -> IConstBinding(5)
       [] name = "u" -> TupleBinding
       [] name = "x" -> FConstBinding(7)]

\* The shape map of RunInfo for a set of names.
ShapeMap(names) == [n \in names |-> Bound[n].shape]

RunInfos ==
  { [program_name |-> "prog", input_shapes |-> ShapeMap({"A", "B"}),
     output_shapes |-> ShapeMap({"O"}), const_inputs |-> {"A"}],
    [program_name |-> "prog", input_shapes |-> ShapeMap({"A", "B", "S", "V", "W"}),
     output_shapes |-> ShapeMap({"O", "P", "R"}), const_inputs |-> {}],
    [program_name |-> "prog", input_shapes |-> ShapeMap({"A", "S", "V", "W"}),
     output_shapes |-> ShapeMap({"P"}), const_inputs |-> {"V", "W"}] }

(***************************************************************************)
(* Names of the Stripe intrinsics and specials (stripe.h).                 *)
(***************************************************************************)
Intrinsic_ASSIGN == "assign"
Intrinsic_SUM == "add"
Intrinsic_MIN == "min"
Intrinsic_MAX == "max"
Intrinsic_PROD == "mul"
Intrinsic_MUL == "mul"
Intrinsic_ADD == "add"
Intrinsic_EQ == "eq"
Intrinsic_COND == "cond"
Special_ZERO == "ZERO"
Special_COPY == "COPY"

\* Op::f.is_special()
IsSpecialFn(fn) == fn \in {"gather", "scatter", "shape", "prng_step"}

(***************************************************************************)
(* Statements, refinements and blocks of the IR.                           *)
(***************************************************************************)
Load(from, into) == [kind |-> "Load", from |-> from, into |-> into]
Store(from, into) == [kind |-> "Store", from |-> from, into |-> into]
Constant(name, type, value) == [kind |-> "Constant", name |-> name, type |-> type, value |-> value]
Intrinsic(name, inputs, outputs) ==
  [kind |-> "Intrinsic", name |-> name, inputs |-> inputs, outputs |-> outputs]
Special(name, params, inputs, outputs) ==
  [kind |-> "Special", name |-> name, params |-> params, inputs |-> inputs, outputs |-> outputs]

\* A default-constructed Block.
NewBlock ==
  [kind |-> "Block", name |-> "", comments |-> <<>>, tags |-> {}, idxs |-> <<>>,
   constraints |-> <<>>, refs |-> <<>>, stmts |-> <<>>]

Index(name, range) == [name |-> name, range |-> range]

Refinement(dir, from, into, access, shape, agg_op, is_const) ==
  [dir |-> dir, from |-> from, into |-> into, access |-> access, shape |-> shape,
   agg_op |-> agg_op, is_const |-> is_const, offset |-> 0]

\* std::vector<Affine> access(n): n default-constructed (zero) affines.
ZeroAccess(n) == [d \in 1..n |-> EmptyPoly]

\* Block::set_tag
SetTag(block, tag) == [block EXCEPT !.tags = @ \cup {tag}]

\* Block::idx_by_name; the callers use it for declared indices only.
IdxByName(block, name) ==
  block.idxs[CHOOSE p \in 1..Len(block.idxs) : block.idxs[p].name = name]

(***************************************************************************)
(* Helpers of StripeGenerator.                                             *)
(***************************************************************************)
\* ScalarName (429-431)
ScalarName(name) == "$" \o name

\* IsConst (546-549)
IsConst(ri, name) == name \in ri.const_inputs

\* GetShape (433-439), for a bound name; an unbound name throws.
Known(bindings, name) == name \in DOMAIN bindings

GetShape(bindings, name) == bindings[name].shape

\* ScalarShape (441-451), for a bound name: every dimension keeps its stride, with size 1.
ScalarShape(bindings, name) ==
  LET shape == bindings[name].shape
  IN [type |-> shape.type,
      dims |-> [d \in 1..Len(shape.dims) |-> TensorDimension(shape.dims[d].stride, 1)]]

\* GetAggOp (473-488)
GetAggOp(op) ==
  CASE op = "SUM" -> Intrinsic_SUM
    [] op = "MAX" -> Intrinsic_MAX
    [] op = "MIN" -> Intrinsic_MIN
    [] op = "PROD" -> Intrinsic_PROD
    [] op = "ASSIGN" -> Intrinsic_ASSIGN
    [] OTHER -> ""

\* GetComboOp (490-503)
GetComboOp(op) ==
  CASE op = "MULTIPLY" -> Intrinsic_MUL
    [] op = "PLUS" -> Intrinsic_ADD
    [] op = "EQ" -> Intrinsic_EQ
    [] op = "COND" -> Intrinsic_COND
    [] OTHER -> ""

\* AddIntrinsic (418-427)
AddIntrinsic(block, name, inputs, outputs) ==
  [block EXCEPT !.stmts = Append(@, Intrinsic(name, inputs, outputs))]

(***************************************************************************)
(* NeedsInitialize (247-284).                                              *)
(***************************************************************************)
\* The loop over the output dimensions (252-268) from dimension i on:
\* bail = TRUE when it returns true, else the output indices it collected.
RECURSIVE OutputDims(_, _, _, _)
OutputDims(block, out_shape, i, out_idxs) ==
  IF i > Len(out_shape.dims)
    THEN [bail |-> FALSE, out_idxs |-> out_idxs]
    ELSE LET affine == block.refs[1].access[i]
             idx == Head(SortedKeys(affine))
         IN IF affine = EmptyPoly /\ out_shape.dims[i].size = 1
              THEN OutputDims(block, out_shape, i + 1, out_idxs)
              ELSE IF \/ PolyConstant(affine) # 0
                      \/ Cardinality(DOMAIN affine) # 1
                      \/ affine[idx] # 1
                     THEN [bail |-> TRUE, out_idxs |-> out_idxs]
                     ELSE IF idx \in out_idxs
                            THEN [bail |-> TRUE, out_idxs |-> out_idxs]
                            ELSE IF IdxByName(block, idx).range # out_shape.dims[i].size
                                   THEN [bail |-> TRUE, out_idxs |-> out_idxs \cup {idx}]
                                   ELSE OutputDims(block, out_shape, i + 1, out_idxs \cup {idx})

\* A variant that asks for an index outside the output indices.
OutputOnlyInverted(con, out_idxs) ==
  \E n \in DOMAIN con : n # "" /\ n \notin out_idxs

\* The body of the loop over the constraints (273-279): !any_inputs.
OutputOnly(con, out_idxs) ==
  ~ \E n \in DOMAIN con : n # "" /\ n \notin out_idxs

\* A variant that asks for the initialization of every output.
NeedsInitializeAlways(block, out_shape) == TRUE

\* 247-284
NeedsInitialize(block, out_shape) ==
  LET dims == OutputDims(block, out_shape, 1, {})
  IN \/ dims.bail
     \/ \E c \in 1..Len(block.constraints) : OutputOnly(block.constraints[c], dims.out_idxs)

(***************************************************************************)
(* ProcessContraction: the kernel's refinements, loads, indices and        *)
(* constraints (155-218).  ok = FALSE when Integerize throws.              *)
(***************************************************************************)
\* 159-162
SpecAccess(spec, bounds) == [d \in 1..Len(spec.spec) |-> Integerize(spec.spec[d], bounds)]

AccessOk(access) == \A d \in 1..Len(access) : access[d].ok

AccessOf(access) == [d \in 1..Len(access) |-> access[d].val]

\* One iteration of the loop over cion.specs (157-203); i counts from 1.
ContractionSpec(st, cion, bounds, bindings, ri, i) ==
  LET spec == cion.specs[i]
      shape == ScalarShape(bindings, spec.id)
      access == SpecAccess(spec, bounds)
      scalar_name == ScalarName(spec.id)
      src == bindings[spec.id]
      inputs == Append(st.scalar_inputs, scalar_name)
  IN IF ~AccessOk(access)
       THEN [st EXCEPT !.ok = FALSE]
       ELSE IF i = 1
         THEN [st EXCEPT !.kernel.refs =
                 Append(@, Refinement("Out", spec.id, spec.id, AccessOf(access), shape,
                                      GetAggOp(cion.agg_op), FALSE))]
         ELSE IF src.tag = "FCONST"
           THEN [st EXCEPT !.scalar_inputs = inputs,
                           !.kernel.stmts = Append(@, Constant(scalar_name, "float", src.fconst))]
           ELSE IF src.tag = "ICONST"
             THEN [st EXCEPT !.scalar_inputs = inputs,
                             !.kernel.stmts = Append(@, Constant(scalar_name, "int", src.iconst))]
             ELSE [st EXCEPT !.scalar_inputs = inputs,
                             !.kernel.refs =
                                Append(@, Refinement("In", spec.id, spec.id, AccessOf(access),
                                                     shape, "", IsConst(ri, spec.id))),
                             !.kernel.stmts = Append(@, Load(spec.id, scalar_name))]

RECURSIVE ContractionSpecs(_, _, _, _, _, _)
ContractionSpecs(st, cion, bounds, bindings, ri, i) ==
  IF i > Len(cion.specs) \/ ~st.ok
    THEN st
    ELSE ContractionSpecs(ContractionSpec(st, cion, bounds, bindings, ri, i),
                          cion, bounds, bindings, ri, i + 1)

\* 206-212: one index per bound of range other than 1.
RECURSIVE ContractionIdxs(_, _)
ContractionIdxs(bounds, names) ==
  IF names = <<>>
    THEN <<>>
    ELSE LET range == bounds[Head(names)].max - bounds[Head(names)].min + 1
         IN (IF range = 1 THEN <<>> ELSE <<Index(Head(names), range)>>)
            \o ContractionIdxs(bounds, Tail(names))

\* 214-216: lhs <= rhs stored as rhs - lhs >= 0.
Constraint(constraint, bounds) ==
  LET lhs == Integerize(constraint.poly, bounds)
  IN [ok |-> lhs.ok, val |-> PolyNeg(PolyAddConst(lhs.val, 0 - constraint.rhs))]

\* 155-218
ContractionKernel(kernel, cion, bounds, simple_cons, bindings, ri) ==
  LET st == ContractionSpecs([ok |-> TRUE, kernel |-> kernel, scalar_inputs |-> <<>>],
                             cion, bounds, bindings, ri, 1)
      cons == [c \in 1..Len(simple_cons) |-> Constraint(simple_cons[c], bounds)]
  IN IF ~st.ok \/ ~AccessOk(cons)
       THEN [st EXCEPT !.ok = FALSE]
       ELSE [st EXCEPT !.kernel.idxs = @ \o ContractionIdxs(bounds, SortedKeys(bounds)),
                       !.kernel.constraints = @ \o AccessOf(cons)]

\* 220-230: the statement that initializes the output.
InitSpecial(op) ==
  IF op.c.use_default = ""
    THEN Special(Special_ZERO, <<>>, <<>>, <<op.output>>)
    ELSE Special(Special_COPY, <<>>, <<op.c.use_default>>, <<op.output>>)

\* Variants that put the statement first, or after the kernel.
InsertAtFront(stmts, stmt) == <<stmt>> \o stmts

InsertAtEnd(stmts, stmt) == Append(stmts, stmt)

\* main->stmts.insert(std::prev(main->stmts.end()), stmt), the kernel being the last
\* statement (229).
InsertBeforeLast(stmts, stmt) ==
  SubSeq(stmts, 1, Len(stmts) - 1) \o <<stmt>> \o <<stmts[Len(stmts)]>>

\* 232-241: the combination of the scalar inputs.
Combination(kernel, cion, scalar_inputs, output) ==
  IF Len(scalar_inputs) > 1
    THEN LET combo_op == GetComboOp(cion.comb_op)
         IN IF combo_op # ""
              THEN SetTag(AddIntrinsic(kernel, combo_op, scalar_inputs, <<ScalarName(output)>>),
                          "comb_op_" \o combo_op)
              ELSE kernel
    ELSE AddIntrinsic(kernel, Intrinsic_ASSIGN, scalar_inputs, <<ScalarName(output)>>)

(***************************************************************************)
(* ProcessElementwise (286-376).                                           *)
(***************************************************************************)
\* 293-304: one index per output dimension, named i1, i2, ...
ElementwiseIdxs(out_shape) ==
  [i \in 1..Len(out_shape.dims) |-> Index("i" \o ToString(i), out_shape.dims[i].size)]

\* A variant that names the index of every output dimension, whatever its size.
ElementwiseOutAccessAllIndices(out_shape) ==
  [i \in 1..Len(out_shape.dims) |-> AffineIndex("i" \o ToString(i))]

\* 293-304: the access of the output, the constant 0 in a dimension of size 1.
ElementwiseOutAccess(out_shape) ==
  [i \in 1..Len(out_shape.dims) |->
     IF out_shape.dims[i].size > 1 THEN AffineIndex("i" \o ToString(i)) ELSE EmptyPoly]

Max(a, b) == IF a > b THEN a ELSE b

\* A variant that names the leading indices of the output.
InputAccessLeading(idxs, out_shape, in_shape) ==
  LET diff == Len(out_shape.dims) - Len(in_shape.dims)
      skip == Max(diff, 0)
  IN [p \in 1..(Len(out_shape.dims) - skip) |->
        IF in_shape.dims[p + skip - diff].size > 1
          THEN AffineIndex(idxs[p].name)
          ELSE EmptyPoly]

\* A variant with an entry for every dimension of the output.
InputAccessAllDims(idxs, out_shape, in_shape) ==
  LET diff == Len(out_shape.dims) - Len(in_shape.dims)
  IN [p \in 1..Len(out_shape.dims) |->
        IF p - 1 >= diff /\ in_shape.dims[p - diff].size > 1
          THEN AffineIndex(idxs[p].name)
          ELSE EmptyPoly]

\* 312-323: the access of a tensor input, aligned with the trailing output dimensions.
\* Position p of the result is the iteration i = skip + p - 1 (counting from 0).
InputAccess(idxs, out_shape, in_shape) ==
  LET diff == Len(out_shape.dims) - Len(in_shape.dims)
      skip == Max(diff, 0)
  IN [p \in 1..(Len(out_shape.dims) - skip) |->
        IF in_shape.dims[p + skip - diff].size > 1
          THEN AffineIndex(idxs[p + skip].name)
          ELSE EmptyPoly]

\* One iteration of the loop over op.inputs (306-349); ok = FALSE when it throws.
ElementwiseInput(st, input, out_shape, bindings, ri) ==
  IF ~Known(bindings, input)
    THEN [st EXCEPT !.ok = FALSE]
    ELSE LET binding == bindings[input]
         IN CASE binding.tag = "TENSOR" ->
                   [st EXCEPT !.kernel.refs =
                       Append(@, Refinement("In", input, input,
                                            InputAccess(st.kernel.idxs, out_shape, binding.shape),
                                            ScalarShape(bindings, input), "", IsConst(ri, input))),
                              !.kernel.stmts = Append(@, Load(input, ScalarName(input)))]
              [] binding.tag = "ICONST" ->
                   [st EXCEPT !.kernel.stmts =
                       Append(@, Constant(ScalarName(input), "int", binding.iconst))]
              [] binding.tag = "FCONST" ->
                   [st EXCEPT !.kernel.stmts =
                       Append(@, Constant(ScalarName(input), "float", binding.fconst))]
              [] OTHER -> [st EXCEPT !.ok = FALSE]

RECURSIVE ElementwiseInputs(_, _, _, _, _, _)
ElementwiseInputs(st, inputs, out_shape, bindings, ri, i) ==
  IF i > Len(inputs) \/ ~st.ok
    THEN st
    ELSE ElementwiseInputs(ElementwiseInput(st, inputs[i], out_shape, bindings, ri),
                           inputs, out_shape, bindings, ri, i + 1)

\* 351-354: remove the indices of range 1.
RemoveUnused(idxs) == SelectSeq(idxs, LAMBDA idx : idx.range # 1)

\* 291-375, on the kernel AddKernel made; ok = FALSE when a lookup or a tuple input throws.
ElementwiseKernel(kernel, op, bindings, ri) ==
  IF ~Known(bindings, op.output)
    THEN [ok |-> FALSE, kernel |-> kernel]
    ELSE
      LET out_shape == GetShape(bindings, op.output)
          k1 == [kernel EXCEPT !.idxs = @ \o ElementwiseIdxs(out_shape)]
          st == ElementwiseInputs([ok |-> TRUE, kernel |-> k1], op.inputs, out_shape,
                                  bindings, ri, 1)
          k2 == [st.kernel EXCEPT
                   !.idxs = RemoveUnused(@),
                   !.refs = Append(@, Refinement("Out", op.output, op.output,
                                                 ElementwiseOutAccess(out_shape),
                                                 ScalarShape(bindings, op.output), "", FALSE))]
          k3 == AddIntrinsic(k2, op.f.fn, [i \in 1..Len(op.inputs) |-> ScalarName(op.inputs[i])],
                             <<ScalarName(op.output)>>)
      IN IF ~st.ok
           THEN [ok |-> FALSE, kernel |-> kernel]
           ELSE [ok |-> TRUE,
                 kernel |-> [k3 EXCEPT !.stmts = Append(@, Store(ScalarName(op.output), op.output))]]

(***************************************************************************)
(* AddKernel (396-408) and the ops that become one Special (378-394).      *)
(***************************************************************************)
\* The name a "pid" attribute with parameters gives the block, the last such one winning.
RECURSIVE KernelName(_, _, _)
KernelName(name, attributes, a) ==
  IF a > Len(attributes)
    THEN name
    ELSE KernelName(IF attributes[a].name = "pid" /\ Len(attributes[a].params) > 0
                      THEN attributes[a].params[1]
                      ELSE name,
                    attributes, a + 1)

\* The block AddKernel makes, before it is pushed on the parent's statements.
KernelBlock(parent, op) ==
  [SetTag(NewBlock, "kernel") EXCEPT
     !.name = KernelName("kernel_" \o ToString(Len(parent.stmts)), op.attributes, 1),
     !.comments = <<op>>]

AddKernel(parent, op) == [parent EXCEPT !.stmts = Append(@, KernelBlock(parent, op))]

\* ProcessSpecial (378-385)
SpecialStmt(op) == Special(op.f.fn, op.f.params, op.inputs, <<op.output>>)

\* ProcessReshape (387-394)
ReshapeStmt(op) == Special(op.f.fn, op.f.params, <<op.inputs[1]>>, <<op.output>>)

(***************************************************************************)
(* AddDecls (87-129) and the declarations of the temporaries (61-81).      *)
(***************************************************************************)
ProgramDecl(ri, name, shape) ==
  Refinement("None", "", name, ZeroAccess(Len(shape.dims)), shape, "", IsConst(ri, name))

MainDecl(ri, name, shape, is_input) ==
  IF is_input
    THEN Refinement("In", name, name, ZeroAccess(Len(shape.dims)), shape, "", IsConst(ri, name))
    ELSE Refinement("Out", name, name, ZeroAccess(Len(shape.dims)), shape, Intrinsic_ASSIGN, FALSE)

\* The refinements AddDecls appends to program->refs and to main->refs.
ProgramDecls(ri, shapes) ==
  LET names == Sorted(DOMAIN shapes)
  IN [p \in 1..Len(names) |-> ProgramDecl(ri, names[p], shapes[names[p]])]

MainDecls(ri, shapes, is_input) ==
  LET names == Sorted(DOMAIN shapes)
  IN [p \in 1..Len(names) |-> MainDecl(ri, names[p], shapes[names[p]], is_input)]

\* 62-65: the bound tensors that are not external, in map order.
Temporaries(bindings, externals) ==
  SelectSeq(Sorted(DOMAIN bindings),
            LAMBDA n : n \notin externals /\ bindings[n].tag = "TENSOR")

\* 66-78
TempDecls(ri, bindings, externals) ==
  LET names == Temporaries(bindings, externals)
  IN [p \in 1..Len(names) |-> ProgramDecl(ri, names[p], bindings[names[p]].shape)]

(***************************************************************************)
(* The operations of the parsed program, with what the external transforms *)
(* and the bound solver return for each contraction: the contraction is    *)
(* given as Defract returns it, ext.solvable says whether ComputeBounds    *)
(* succeeds, and ext.bounds, ext.simple_cons are its result.               *)
(***************************************************************************)
Range(min, max) == [min |-> min, max |-> max]

\* Polynomials over the index names, with rational coefficients.
PIdx(name) == [n \in {name} |-> Rat(1, 1)]
PSum(a, b) == [n \in {a, b} |-> Rat(1, 1)]
PHalf(name) == [n \in {name} |-> Rat(1, 2)]

TensorSpec(id, spec) == [id |-> id, spec |-> spec]

SimpleConstraint(poly, rhs) == [poly |-> poly, rhs |-> rhs]

NoContraction ==
  [specs |-> <<>>, agg_op |-> "NONE", comb_op |-> "NONE", use_default |-> "", no_defract |-> FALSE]

NoFunction == [fn |-> "", params |-> <<>>]

ContractionOp(specs, agg_op, comb_op, use_default) ==
  [tag |-> "CONTRACTION", output |-> specs[1].id,
   inputs |-> [i \in 1..(Len(specs) - 1) |-> specs[i + 1].id],
   c |-> [specs |-> specs, agg_op |-> agg_op, comb_op |-> comb_op,
          use_default |-> use_default, no_defract |-> FALSE],
   f |-> NoFunction, attributes |-> <<>>]

FunctionOp(output, fn, inputs, attributes) ==
  [tag |-> "FUNCTION", output |-> output, inputs |-> inputs, c |-> NoContraction,
   f |-> [fn |-> fn, params |-> <<>>], attributes |-> attributes]

ConstantOp(output) ==
  [tag |-> "CONSTANT", output |-> output, inputs |-> <<"5">>, c |-> NoContraction,
   f |-> NoFunction, attributes |-> <<>>]

Solved(bounds, simple_cons) == [solvable |-> TRUE, bounds |-> bounds, simple_cons |-> simple_cons]

Unsolvable == [solvable |-> FALSE, bounds |-> EmptyPoly, simple_cons |-> <<>>]

NoExt == Solved(EmptyPoly, <<>>)

Case(op, ext) == [op |-> op, ext |-> ext]

Bounds3(i, j, k) == [n \in {"i", "j", "k"} |-> IF n = "i" THEN i ELSE IF n = "j" THEN j ELSE k]

\* C[i, j] = agg(A[i, k] comb B[k, j]) with A of 2 x 3, B of 3 x 2, C of 2 x 2.
MatMulSpecs(out) ==
  << TensorSpec(out, <<PIdx("i"), PIdx("j")>>),
     TensorSpec("A", <<PIdx("i"), PIdx("k")>>),
     TensorSpec("B", <<PIdx("k"), PIdx("j")>> ) >>

FullBounds == Bounds3(Range(0, 1), Range(0, 1), Range(0, 2))

MatMulExts ==
  { Solved(FullBounds, <<>>),
    Solved(Bounds3(Range(0, 1), Range(0, 1), Range(1, 2)), <<>>),
    Solved(Bounds3(Range(1, 1), Range(0, 1), Range(0, 2)), <<>>),
    Solved(FullBounds, <<SimpleConstraint(PSum("i", "j"), 1)>>),
    Solved(FullBounds, <<SimpleConstraint(PSum("i", "k"), 2)>>) }

MatMulOps ==
  { ContractionOp(MatMulSpecs("O"), "SUM", "MULTIPLY", ""),
    ContractionOp(MatMulSpecs("O"), "SUM", "MULTIPLY", "D"),
    ContractionOp(MatMulSpecs("O"), "MAX", "NONE", "") }

ContractionCases ==
  { Case(op, ext) : op \in MatMulOps, ext \in MatMulExts }
  \cup
  { \* one input: T[i, j] = +(A[i, k])
    Case(ContractionOp(<<TensorSpec("T", <<PIdx("i"), PIdx("j")>>),
                         TensorSpec("A", <<PIdx("i"), PIdx("k")>>)>>, "SUM", "NONE", ""),
         Solved(FullBounds, <<>>)),
    \* a constant input
    Case(ContractionOp(<<TensorSpec("T", <<PIdx("i"), PIdx("j")>>),
                         TensorSpec("A", <<PIdx("i"), PIdx("k")>>),
                         TensorSpec("n", <<>>)>>, "PROD", "PLUS", ""),
         Solved(FullBounds, <<>>)),
    \* three inputs
    Case(ContractionOp(<<TensorSpec("T", <<PIdx("i"), PIdx("j")>>),
                         TensorSpec("A", <<PIdx("i"), PIdx("k")>>),
                         TensorSpec("x", <<>>),
                         TensorSpec("B", <<PIdx("k"), PIdx("j")>>)>>, "MIN", "COND", "D"),
         Solved(FullBounds, <<>>)),
    Case(ContractionOp(MatMulSpecs("T"), "ASSIGN", "EQ", ""), Solved(FullBounds, <<>>)),
    \* an output dimension of size 1: R[i, j] = +(V[j])
    Case(ContractionOp(<<TensorSpec("R", <<PIdx("i"), PIdx("j")>>),
                         TensorSpec("V", <<PIdx("j")>>)>>, "SUM", "NONE", ""),
         Solved([n \in {"i", "j"} |-> IF n = "i" THEN Range(0, 0) ELSE Range(0, 2)], <<>>)),
    \* an output of size 0
    Case(ContractionOp(MatMulSpecs("Z"), "SUM", "MULTIPLY", ""), Solved(FullBounds, <<>>)),
    Case(ContractionOp(<<TensorSpec("Z", <<PIdx("i"), PIdx("j")>>)>>, "SUM", "NONE", ""),
         Solved(FullBounds, <<>>)),
    \* the failures
    Case(ContractionOp(<<TensorSpec("T", <<PIdx("i"), PIdx("j")>>)>>, "SUM", "NONE", ""),
         Solved(FullBounds, <<>>)),
    Case(ContractionOp(MatMulSpecs("T") \o <<TensorSpec("n", <<>>), TensorSpec("x", <<>>)>>,
                       "SUM", "MULTIPLY", ""),
         Solved(FullBounds, <<>>)),
    Case(ContractionOp(<<TensorSpec("T", <<PIdx("i"), PIdx("j")>>),
                         TensorSpec("A", <<PHalf("i"), PIdx("k")>>)>>, "SUM", "NONE", ""),
         Solved(FullBounds, <<>>)),
    Case(ContractionOp(MatMulSpecs("T"), "SUM", "MULTIPLY", ""),
         Solved(FullBounds, <<SimpleConstraint(PHalf("k"), 1)>>)),
    Case(ContractionOp(MatMulSpecs("T"), "SUM", "MULTIPLY", ""), Unsolvable),
    Case(ContractionOp(<<TensorSpec("T", <<PIdx("i"), PIdx("j")>>),
                         TensorSpec("Q", <<PIdx("i"), PIdx("k")>>)>>, "SUM", "NONE", ""),
         Solved(FullBounds, <<>>)),
    Case(ContractionOp(MatMulSpecs("Q"), "SUM", "MULTIPLY", ""), Solved(FullBounds, <<>>)) }

Pid(name) == <<[name |-> "pid", params |-> <<name>>]>>

ElementwiseCases ==
  { Case(op, NoExt) : op \in
      { FunctionOp("P", "add", <<"A", "V">>, <<>>),
        FunctionOp("P", "add", <<"W", "V">>, <<>>),
        FunctionOp("P", "exp", <<"A">>, Pid("my_exp")),
        FunctionOp("P", "neg", <<"R">>, <<>>),
        FunctionOp("E", "add", <<"A", "S">>, <<>>),
        FunctionOp("E", "mul", <<"A", "n">>, <<>>),
        FunctionOp("E", "mul", <<"x", "W">>, <<[name |-> "pid", params |-> <<>>]>>),
        FunctionOp("E", "cond", <<"W", "V", "S">>, <<>>),
        FunctionOp("R", "neg", <<"V">>, <<>>),
        FunctionOp("R", "add", <<"S", "V">>, <<>>),
        FunctionOp("E", "add", <<"A", "u">>, <<>>),
        FunctionOp("E", "add", <<"Q", "A">>, <<>>),
        FunctionOp("Q", "neg", <<"A">>, <<>>) } }

OtherCases ==
  { Case(op, NoExt) : op \in
      { FunctionOp("T", "gather", <<"A", "V">>, <<>>),
        FunctionOp("T", "reshape", <<"A", "n">>, <<>>),
        FunctionOp("E", "reshape", <<"S">>, <<>>),
        ConstantOp("n") } }

OpCases == ContractionCases \cup ElementwiseCases \cup OtherCases

(***************************************************************************)
(* Run (24-84) as a state machine.                                         *)
(***************************************************************************)
NoTree == [ok |-> FALSE]

NoLocals == [active |-> FALSE]

NoProbe == [fn |-> ""]

\* program->stmts holds the pointer to main; the tree handed back holds main itself.
MainPtr == [kind |-> "BlockPtr", to |-> "main"]

Tree(prog, mn) == [prog EXCEPT !.stmts = <<mn>>]

Init ==
  /\ pc = "start"
  /\ runinfo_ \in RunInfos
  /\ vars_ = Bound
  /\ externals_ = {}
  /\ parsed_ops = <<>>
  /\ program = NewBlock
  /\ main = NewBlock
  /\ locals = NoLocals
  /\ returned = NoTree
  /\ probe = NoProbe

\* A variant that hands back what was built before the exception.
ThrowReturnsPartial ==
  /\ pc' = "failed"
  /\ returned' = [ok |-> TRUE, tree |-> Tree(program, main)]
  /\ UNCHANGED <<runinfo_, vars_, externals_, program, main, locals, probe>>

\* An exception leaves Run and GenerateStripe: nothing is handed back.
Throw ==
  /\ pc' = "failed"
  /\ returned' = NoTree
  /\ UNCHANGED <<runinfo_, vars_, externals_, program, main, locals, probe>>

\* 25-36
RunBegin ==
  /\ pc = "start"
  /\ program' = [SetTag(NewBlock, "program") EXCEPT !.name = runinfo_.program_name,
                                                     !.stmts = <<MainPtr>>]
  /\ main' = [SetTag(NewBlock, "main") EXCEPT !.name = "main"]
  /\ pc' = "inputs"
  /\ UNCHANGED <<runinfo_, vars_, externals_, parsed_ops, locals, returned, probe>>

\* 38: AddDecls(program, main, runinfo_.input_shapes, true)
AddDeclsInputs ==
  /\ pc = "inputs"
  /\ externals_' = externals_ \cup DOMAIN runinfo_.input_shapes
  /\ program' = [program EXCEPT !.refs = @ \o ProgramDecls(runinfo_, runinfo_.input_shapes)]
  /\ main' = [main EXCEPT !.refs = @ \o MainDecls(runinfo_, runinfo_.input_shapes, TRUE)]
  /\ pc' = "outputs"
  /\ UNCHANGED <<runinfo_, vars_, parsed_ops, locals, returned, probe>>

\* 39: AddDecls(program, main, runinfo_.output_shapes, false)
AddDeclsOutputs ==
  /\ pc = "outputs"
  /\ externals_' = externals_ \cup DOMAIN runinfo_.output_shapes
  /\ program' = [program EXCEPT !.refs = @ \o ProgramDecls(runinfo_, runinfo_.output_shapes)]
  /\ main' = [main EXCEPT !.refs = @ \o MainDecls(runinfo_, runinfo_.output_shapes, FALSE)]
  /\ pc' = "ops"
  /\ UNCHANGED <<runinfo_, vars_, parsed_ops, locals, returned, probe>>

\* The loop of 41 takes the next operation: one the binder accepts defines a new name.
Takes(case) ==
  /\ pc = "ops"
  /\ Len(parsed_ops) < MaxOps
  /\ case.op.output \notin DOMAIN runinfo_.input_shapes
  /\ \A p \in 1..Len(parsed_ops) : parsed_ops[p].output # case.op.output
  /\ parsed_ops' = Append(parsed_ops, case.op)

\* The last statement of a block replaced.
WithLast(block, stmt) == [block EXCEPT !.stmts[Len(block.stmts)] = stmt]

LastStmt(block) == block.stmts[Len(block.stmts)]

\* ProcessContraction up to the tags of the new kernel (131-153)
ProcessContractionBegin(case) ==
  LET op == case.op
  IN /\ Takes(case)
     /\ op.tag = "CONTRACTION"
     /\ IF ~Known(vars_, op.output)
          THEN Throw
          ELSE IF ByteSizeIsZero(GetShape(vars_, op.output))
            THEN /\ pc' = "ops"
                 /\ UNCHANGED <<runinfo_, vars_, externals_, program, main, locals,
                                returned, probe>>
            ELSE IF \/ \E i \in 1..Len(op.c.specs) : ~Known(vars_, op.c.specs[i].id)
                    \/ Len(op.c.specs) \notin {2, 3, 4}
                    \/ ~case.ext.solvable
              THEN Throw
              ELSE LET added == AddKernel(main, op)
                       kernel == SetTag(SetTag(LastStmt(added), "contraction"),
                                        "agg_op_" \o GetAggOp(op.c.agg_op))
                   IN /\ main' = WithLast(added, kernel)
                      /\ locals' = [active |-> TRUE, op |-> op, cion |-> op.c,
                                    bounds |-> case.ext.bounds,
                                    simple_cons |-> case.ext.simple_cons,
                                    shapes |-> [i \in 1..Len(op.c.specs) |->
                                                  GetShape(vars_, op.c.specs[i].id)]]
                      /\ pc' = "contraction"
                      /\ UNCHANGED <<runinfo_, vars_, externals_, program, returned, probe>>

\* ProcessContraction from the loop over the specs to its end (155-245)
ProcessContractionBody ==
  /\ pc = "contraction"
  /\ UNCHANGED parsed_ops
  /\ LET op == locals.op
         st == ContractionKernel(LastStmt(main), locals.cion, locals.bounds,
                                 locals.simple_cons, vars_, runinfo_)
     IN IF ~st.ok
          THEN Throw
          ELSE LET combined == Combination(st.kernel, locals.cion, st.scalar_inputs, op.output)
                   kernel == [combined EXCEPT
                                !.stmts = Append(@, Store(ScalarName(op.output), op.output))]
                   \* main holds the pointer to the kernel: what is done to the kernel
                   \* after the insertion shows in main's statement all the same
                   filled == WithLast(main, kernel)
               IN /\ main' = IF NeedsInitialize(st.kernel, locals.shapes[1])
                               THEN [filled EXCEPT !.stmts = InsertBeforeLast(@, InitSpecial(op))]
                               ELSE filled
                  /\ locals' = NoLocals
                  /\ pc' = "ops"
                  /\ UNCHANGED <<runinfo_, vars_, externals_, program, returned, probe>>

\* ProcessElementwise up to the tags of the new kernel (286-289)
ProcessElementwiseBegin(case) ==
  LET op == case.op
      added == AddKernel(main, op)
      kernel == SetTag(SetTag(LastStmt(added), "eltwise"), "eltwise_" \o op.f.fn)
  IN /\ Takes(case)
     /\ op.tag = "FUNCTION" /\ ~IsSpecialFn(op.f.fn) /\ op.f.fn # "reshape"
     /\ main' = WithLast(added, kernel)
     /\ locals' = [active |-> TRUE, op |-> op]
     /\ pc' = "eltwise"
     /\ UNCHANGED <<runinfo_, vars_, externals_, program, returned, probe>>

\* ProcessElementwise from the output shape to its end (291-376)
ProcessElementwiseBody ==
  /\ pc = "eltwise"
  /\ UNCHANGED parsed_ops
  /\ LET st == ElementwiseKernel(LastStmt(main), locals.op, vars_, runinfo_)
     IN IF ~st.ok
          THEN Throw
          ELSE /\ main' = WithLast(main, st.kernel)
               /\ locals' = NoLocals
               /\ pc' = "ops"
               /\ UNCHANGED <<runinfo_, vars_, externals_, program, returned, probe>>

\* 48-49
ProcessSpecial(case) ==
  /\ Takes(case)
  /\ case.op.tag = "FUNCTION" /\ IsSpecialFn(case.op.f.fn)
  /\ main' = [main EXCEPT !.stmts = Append(@, SpecialStmt(case.op))]
  /\ pc' = "ops"
  /\ UNCHANGED <<runinfo_, vars_, externals_, program, locals, returned, probe>>

\* 50-51
ProcessReshape(case) ==
  /\ Takes(case)
  /\ case.op.tag = "FUNCTION" /\ ~IsSpecialFn(case.op.f.fn) /\ case.op.f.fn = "reshape"
  /\ main' = [main EXCEPT !.stmts = Append(@, ReshapeStmt(case.op))]
  /\ pc' = "ops"
  /\ UNCHANGED <<runinfo_, vars_, externals_, program, locals, returned, probe>>

\* 56-58
ProcessConstant(case) ==
  /\ Takes(case)
  /\ case.op.tag = "CONSTANT"
  /\ pc' = "ops"
  /\ UNCHANGED <<runinfo_, vars_, externals_, program, main, locals, returned, probe>>

\* A variant that declares the temporaries on the program block.
AddTemporariesOnProgram ==
  /\ pc = "ops"
  /\ program' = [program EXCEPT !.refs = @ \o TempDecls(runinfo_, vars_, externals_)]
  /\ returned' = [ok |-> TRUE, tree |-> Tree(program', main)]
  /\ pc' = "done"
  /\ UNCHANGED <<runinfo_, vars_, externals_, parsed_ops, main, locals, probe>>

\* 61-83: the loop over the operations is over; the temporaries are declared and the
\* program is handed back.
AddTemporaries ==
  /\ pc = "ops"
  /\ main' = [main EXCEPT !.refs = @ \o TempDecls(runinfo_, vars_, externals_)]
  /\ returned' = [ok |-> TRUE, tree |-> Tree(program, main')]
  /\ pc' = "done"
  /\ UNCHANGED <<runinfo_, vars_, externals_, parsed_ops, program, locals, probe>>

Next ==
  \/ RunBegin
  \/ AddDeclsInputs
  \/ AddDeclsOutputs
  \/ \E case \in OpCases : ProcessContractionBegin(case)
  \/ ProcessContractionBody
  \/ \E case \in OpCases : ProcessElementwiseBegin(case)
  \/ ProcessElementwiseBody
  \/ \E case \in OpCases : ProcessSpecial(case)
  \/ \E case \in OpCases : ProcessReshape(case)
  \/ \E case \in OpCases : ProcessConstant(case)
  \/ AddTemporaries

Spec == Init /\ [][Next]_vars

(***************************************************************************)
(* Properties of the lowering.                                             *)
(***************************************************************************)
\* The kernels of main are complete: no Process* call is under way or was abandoned.
Settled == pc \in {"ops", "done"}

IsPrefix(s, t) == Len(s) <= Len(t) /\ \A q \in 1..Len(s) : t[q] = s[q]

Inputs == DOMAIN runinfo_.input_shapes
Outputs == DOMAIN runinfo_.output_shapes

\* The bound tensors that are neither inputs nor outputs.
TempNames == {n \in DOMAIN vars_ : n \notin Inputs \cup Outputs /\ vars_[n].tag = "TENSOR"}

IsZeroAccess(access) == \A d \in 1..Len(access) : access[d] = EmptyPoly

\* A refinement that declares the temporary n.
DeclaresTemp(ref, n) ==
  /\ ref.into = n
  /\ ref.dir = "None"
  /\ ref.from = ""
  /\ ref.agg_op = ""
  /\ ref.shape = vars_[n].shape
  /\ Len(ref.access) = Len(vars_[n].shape.dims)
  /\ IsZeroAccess(ref.access)

RefsInto(refs, n) == {q \in 1..Len(refs) : refs[q].into = n}

\* C1, as stated: after Run() the program block holds one refinement per input, per
\* output and per non-external tensor, the temporaries being declared there with
\* direction None and zero access.
C1_TemporariesOnProgram ==
  pc = "done" =>
    LET refs == returned.tree.refs
    IN /\ Len(refs) = Cardinality(Inputs) + Cardinality(Outputs) + Cardinality(TempNames)
       /\ \A n \in TempNames : \E q \in 1..Len(refs) : DeclaresTemp(refs[q], n)

\* C1, amended: after Run() the program block holds one refinement per input and per
\* output and no other; every non-external tensor is declared by exactly one
\* refinement of main, with direction None and zero access, after main's In and Out
\* refinements.
C1_TemporariesOnMain ==
  pc = "done" =>
    LET prog == returned.tree
        mn == prog.stmts[1]
        externals == Cardinality(Inputs) + Cardinality(Outputs)
    IN /\ Len(prog.refs) = externals
       /\ \A q \in 1..Len(prog.refs) : prog.refs[q].into \in Inputs \cup Outputs
       /\ Len(mn.refs) = externals + Cardinality(TempNames)
       /\ \A n \in TempNames :
            /\ Cardinality(RefsInto(mn.refs, n)) = 1
            /\ \A q \in RefsInto(mn.refs, n) : q > externals /\ DeclaresTemp(mn.refs[q], n)

C1_Witness ==
  /\ pc = "done"
  /\ Len(parsed_ops) >= 1
  /\ Cardinality(TempNames) >= 2
  /\ Cardinality(Inputs) >= 2

(***************************************************************************)
(* Kernels of main.                                                        *)
(***************************************************************************)
KernelsOf(mn, tag) ==
  {q \in 1..Len(mn.stmts) : mn.stmts[q].kind = "Block" /\ tag \in mn.stmts[q].tags}

\* The operation a kernel was made for.
OpOf(kernel) == kernel.comments[1]

RefsWithDir(kernel, dir) == {q \in 1..Len(kernel.refs) : kernel.refs[q].dir = dir}

IsInitSpecial(stmt, output) ==
  /\ stmt.kind = "Special"
  /\ stmt.name \in {Special_ZERO, Special_COPY}
  /\ stmt.outputs = <<output>>

\* The kernel of C[i, j] = +(A[i, k] * B[k, j]) with no default, i and j of full range
\* and no constraint left.
IsMatMulKernel(kernel) ==
  /\ OpOf(kernel).tag = "CONTRACTION"
  /\ OpOf(kernel).c.specs = MatMulSpecs(OpOf(kernel).output)
  /\ OpOf(kernel).c.agg_op = "SUM"
  /\ OpOf(kernel).c.comb_op = "MULTIPLY"
  /\ OpOf(kernel).c.use_default = ""
  /\ kernel.constraints = <<>>
  /\ \E q \in 1..Len(kernel.idxs) :
       kernel.idxs[q] = Index("i", vars_[OpOf(kernel).output].shape.dims[1].size)
  /\ \E q \in 1..Len(kernel.idxs) :
       kernel.idxs[q] = Index("j", vars_[OpOf(kernel).output].shape.dims[2].size)

MatMulShape(kernel) ==
  /\ Cardinality({q \in KernelsOf(main, "kernel") : OpOf(main.stmts[q]) = OpOf(kernel)}) = 1
  /\ [q \in 1..Len(kernel.refs) |-> kernel.refs[q].dir] = <<"Out", "In", "In">>
  /\ kernel.refs[1].agg_op = Intrinsic_SUM
  /\ ("agg_op_" \o Intrinsic_SUM) \in kernel.tags

\* C3, as stated: the matrix multiply gives one kernel with two In refinements and an
\* Out refinement of aggregation add, NeedsInitialize is true for it and a ZERO
\* Special stands before the kernel in main.
C3_MatMulZeroed ==
  Settled =>
    \A p \in KernelsOf(main, "contraction") :
      LET kernel == main.stmts[p]
      IN IsMatMulKernel(kernel) =>
           /\ MatMulShape(kernel)
           /\ NeedsInitialize(kernel, vars_[OpOf(kernel).output].shape)
           /\ p > 1
           /\ main.stmts[p - 1] = Special(Special_ZERO, <<>>, <<>>, <<OpOf(kernel).output>>)

\* C3, amended: the matrix multiply gives one kernel with two In refinements and an
\* Out refinement of aggregation add; NeedsInitialize is false for it (each output
\* dimension is one full-range index of its own) and no initialization Special for
\* its output is put in main.
C3_MatMulNotInitialized ==
  Settled =>
    \A p \in KernelsOf(main, "contraction") :
      LET kernel == main.stmts[p]
      IN IsMatMulKernel(kernel) =>
           /\ MatMulShape(kernel)
           /\ ~NeedsInitialize(kernel, vars_[OpOf(kernel).output].shape)
           /\ \A q \in 1..Len(main.stmts) : ~IsInitSpecial(main.stmts[q], OpOf(kernel).output)

C3_Witness ==
  /\ Settled
  /\ \E p \in KernelsOf(main, "contraction") :
       /\ IsMatMulKernel(main.stmts[p])
       /\ p > 1
       /\ LastStmt(main.stmts[p]).kind = "Store"

(***************************************************************************)
(* Elementwise kernels.                                                    *)
(***************************************************************************)
\* The index terms of an access: the names with a coefficient, over all its dimensions.
Terms(access) ==
  {t \in (1..Len(access)) \X {"i", "i1", "i2", "i3", "j", "k"} : t[2] \in DOMAIN access[t[1]]}

\* The In refinements of the tensor inputs of an elementwise kernel.
TensorInputRefs(kernel) ==
  {q \in RefsWithDir(kernel, "In") : vars_[kernel.refs[q].from].tag = "TENSOR"}

OutRank(kernel) == Len(vars_[OpOf(kernel).output].shape.dims)

\* C4, as stated: the access of an input of rank R-k has exactly R-k terms, the loop
\* indices of the trailing R-k output dimensions.
C4_OneTermPerInputDim ==
  Settled =>
    \A p \in KernelsOf(main, "eltwise") : \A q \in TensorInputRefs(main.stmts[p]) :
      LET ref == main.stmts[p].refs[q]
          rank == Len(vars_[ref.from].shape.dims)
          k == OutRank(main.stmts[p]) - rank
      IN /\ Cardinality(Terms(ref.access)) = rank
         /\ \A j \in 1..rank : ref.access[j] = AffineIndex("i" \o ToString(k + j))

\* C4, amended: the access of an input of rank R-k has R-k expressions; the one of input
\* dimension j is the loop index of output dimension k+j when the size of that input
\* dimension is greater than 1, and the constant 0 when it is 1.  So it has one term per
\* input dimension of size greater than 1, and no term of the k leading output indices.
C4_BroadcastAccess ==
  Settled =>
    \A p \in KernelsOf(main, "eltwise") : \A q \in TensorInputRefs(main.stmts[p]) :
      LET ref == main.stmts[p].refs[q]
          dims == vars_[ref.from].shape.dims
          rank == Len(dims)
          k == OutRank(main.stmts[p]) - rank
      IN /\ Len(ref.access) = rank
         /\ \A j \in 1..rank :
              ref.access[j] = IF dims[j].size > 1
                                THEN AffineIndex("i" \o ToString(k + j))
                                ELSE EmptyPoly
         /\ Cardinality(Terms(ref.access)) = Cardinality({j \in 1..rank : dims[j].size > 1})
         /\ \A t \in Terms(ref.access) : \A d \in 1..k : t[2] # "i" \o ToString(d)

\* An input of lower rank than the output, and an input with a dimension of size 1.
C4_Witness ==
  /\ Settled
  /\ \E p \in KernelsOf(main, "eltwise") :
       /\ \E q \in TensorInputRefs(main.stmts[p]) :
            /\ Len(main.stmts[p].refs[q].access) = 1
            /\ OutRank(main.stmts[p]) = 2
            /\ Terms(main.stmts[p].refs[q].access) = {<<1, "i2">>}
       /\ \E q \in TensorInputRefs(main.stmts[p]) :
            /\ Len(main.stmts[p].refs[q].access) = 2
            /\ main.stmts[p].refs[q].access[2] = EmptyPoly

(***************************************************************************)
(* Every refinement of the tree.                                           *)
(***************************************************************************)
WellFormedRefs(block) ==
  \A q \in 1..Len(block.refs) : Len(block.refs[q].access) = Len(block.refs[q].shape.dims)

ExpectedInit(op) ==
  IF op.c.use_default = ""
    THEN [kind |-> "Special", name |-> Special_ZERO, params |-> <<>>, inputs |-> <<>>,
          outputs |-> <<op.output>>]
    ELSE [kind |-> "Special", name |-> Special_COPY, params |-> <<>>,
          inputs |-> <<op.c.use_default>>, outputs |-> <<op.output>>]

InitSpecialsFor(output) == {q \in 1..Len(main.stmts) : IsInitSpecial(main.stmts[q], output)}

\* C8: main holds an initialization Special for the output of a contraction kernel
\* exactly when NeedsInitialize is true for the kernel; it is then the statement right
\* before the kernel, ZERO without inputs when the contraction has no default and COPY
\* of the default otherwise.
C8_InitBeforeKernel ==
  Settled =>
    \A p \in KernelsOf(main, "contraction") :
      LET kernel == main.stmts[p]
          op == OpOf(kernel)
      IN IF NeedsInitialize(kernel, vars_[op.output].shape)
           THEN /\ InitSpecialsFor(op.output) = {p - 1}
                /\ main.stmts[p - 1] = ExpectedInit(op)
           ELSE InitSpecialsFor(op.output) = {}

\* Two operations lowered, the second a contraction that is initialized; and a
\* contraction that is not.
C8_Witness ==
  /\ Settled
  /\ \E p \in KernelsOf(main, "contraction") :
       /\ p > 2
       /\ main.stmts[p - 1].kind = "Special"
       /\ main.stmts[p - 1].name = Special_COPY
       /\ NeedsInitialize(main.stmts[p], vars_[OpOf(main.stmts[p]).output].shape)
  /\ \E p \in KernelsOf(main, "contraction") :
       ~NeedsInitialize(main.stmts[p], vars_[OpOf(main.stmts[p]).output].shape)

(***************************************************************************)
(* The combination of a contraction's inputs.                              *)
(***************************************************************************)
IntrinsicsWriting(kernel, scalar) ==
  {q \in 1..Len(kernel.stmts) :
     kernel.stmts[q].kind = "Intrinsic" /\ kernel.stmts[q].outputs = <<scalar>>}

StoresOf(kernel, scalar) ==
  {q \in 1..Len(kernel.stmts) : kernel.stmts[q].kind = "Store" /\ kernel.stmts[q].from = scalar}

\* C9: a contraction kernel holds exactly one Intrinsic that writes the output scalar,
\* before the Store; it is the combination intrinsic, with the kernel tagged
\* comb_op_<op>, when there are several scalar inputs and the combination operator is
\* not empty, and "assign" when there is one scalar input or the operator is empty.
C9_OneIntrinsic ==
  Settled =>
    \A p \in KernelsOf(main, "contraction") :
      LET kernel == main.stmts[p]
          op == OpOf(kernel)
          scalar == ScalarName(op.output)
          combo_op == GetComboOp(op.c.comb_op)
      IN /\ Cardinality(IntrinsicsWriting(kernel, scalar)) = 1
         /\ \A q \in IntrinsicsWriting(kernel, scalar) :
              /\ \A t \in StoresOf(kernel, scalar) : q < t
              /\ IF Len(op.inputs) > 1 /\ combo_op # ""
                   THEN /\ kernel.stmts[q].name = combo_op
                        /\ ("comb_op_" \o combo_op) \in kernel.tags
                   ELSE kernel.stmts[q].name = "assign"

(***************************************************************************)
(* How main grows.                                                         *)
(***************************************************************************)
\* A Process* call has placed its kernel in main and is filling it in.
UnderConstruction == pc \in {"contraction", "eltwise"}

\* The kernel b is the kernel a, filled in.
FilledIn(a, b) ==
  /\ b.kind = "Block"
  /\ b.name = a.name
  /\ b.comments = a.comments
  /\ a.tags \subseteq b.tags
  /\ IsPrefix(a.refs, b.refs)
  /\ IsPrefix(a.stmts, b.stmts)

\* C10, as stated, for main and its kernels: every step leaves the refinements and the
\* statements of main as they were, with elements added at the end, and changes no
\* block that is in main's statements.
C10_AppendOnly ==
  [][ /\ IsPrefix(main.refs, main'.refs)
      /\ IsPrefix(main.stmts, main'.stmts) ]_vars

\* C10, amended: the refinements of main only grow at the end.  No statement of main
\* is removed or moved before another: a step adds statements at the end, but for the
\* initialization Special, which ProcessContraction inserts right before the last
\* statement, the kernel AddKernel has appended.  That kernel is filled in after it was
\* placed in main; once the call that made it has returned, no block of main changes.
C10_GrowsInOrder ==
  [][ LET old == main.stmts
          new == main'.stmts
          n == Len(old)
      IN /\ IsPrefix(main.refs, main'.refs)
         /\ Len(new) >= n
         /\ \A q \in 1..n : (q < n \/ ~UnderConstruction) => new[q] = old[q]
         /\ UnderConstruction =>
              \/ new = old
              \/ Len(new) = n /\ FilledIn(old[n], new[n])
              \/ /\ Len(new) = n + 1
                 /\ IsInitSpecial(new[n], OpOf(old[n]).output)
                 /\ FilledIn(old[n], new[n + 1]) ]_vars

\* An initialization Special was inserted behind the statement of an earlier operation.
C10_Witness ==
  /\ pc = "ops"
  /\ Len(main.stmts) = 3
  /\ main.stmts[1].kind = "Block"
  /\ IsInitSpecial(main.stmts[2], OpOf(main.stmts[3]).output)

(***************************************************************************)
(* Failures.                                                               *)
(***************************************************************************)
NonInteger(poly) == \E n \in DOMAIN poly : poly[n].d # 1

\* The operation Run has just taken cannot be lowered, for a reason ProcessContraction
\* finds before it adds the kernel.
TakenFailsEarly ==
  /\ Len(parsed_ops') = Len(parsed_ops) + 1
  /\ LET op == parsed_ops'[Len(parsed_ops')]
     IN /\ op.tag = "CONTRACTION"
        /\ \/ ~Known(vars_, op.output)
           \/ /\ ~ByteSizeIsZero(vars_[op.output].shape)
              /\ \/ Len(op.c.specs) \notin {2, 3, 4}
                 \/ \E i \in 1..Len(op.c.specs) : ~Known(vars_, op.c.specs[i].id)

\* The operation Run has just taken left main as it was, and is neither a constant
\* nor a contraction with an output of size 0.
TakenNotLowered ==
  /\ Len(parsed_ops') = Len(parsed_ops) + 1
  /\ main' = main
  /\ LET op == parsed_ops'[Len(parsed_ops')]
     IN /\ op.tag # "CONSTANT"
        /\ ~(Known(vars_, op.output) /\ ByteSizeIsZero(vars_[op.output].shape))

\* The operation whose kernel is being filled in cannot be lowered.
CurrentFails ==
  \/ /\ pc = "contraction"
     /\ \/ \E i \in 1..Len(locals.cion.specs) : \E d \in 1..Len(locals.cion.specs[i].spec) :
             NonInteger(locals.cion.specs[i].spec[d])
        \/ \E c \in 1..Len(locals.simple_cons) : NonInteger(locals.simple_cons[c].poly)
  \/ /\ pc = "eltwise"
     /\ \/ ~Known(vars_, locals.op.output)
        \/ \E i \in 1..Len(locals.op.inputs) :
             \/ ~Known(vars_, locals.op.inputs[i])
             \/ vars_[locals.op.inputs[i]].tag = "TUPLE"

\* C6: when an operation cannot be lowered (unknown name, contraction of other than 2
\* to 4 specs, non-integer term, unsolvable bounds, tuple input), the invocation ends
\* in the error: no tree is handed back, then or later, and no further operation is
\* processed.
C6_FailureReturnsNothing ==
  [][ /\ (TakenFailsEarly \/ CurrentFails) => pc' = "failed"
      /\ TakenNotLowered => pc' = "failed"
      /\ pc' = "failed" => ~returned'.ok
      /\ returned'.ok => pc' = "done"
      /\ pc = "failed" => UNCHANGED vars ]_vars

\* The lowering failed with a kernel already in main.
C6_Witness ==
  /\ pc = "failed"
  /\ ~returned.ok
  /\ Len(parsed_ops) = 2
  /\ KernelsOf(main, "kernel") # {}

(***************************************************************************)
(* Integerize and NeedsInitialize applied on their own.                    *)
(***************************************************************************)
DefaultRunInfo ==
  [program_name |-> "prog", input_shapes |-> ShapeMap({"A", "B"}),
   output_shapes |-> ShapeMap({"O"}), const_inputs |-> {}]

ProbeInit ==
  /\ pc = "probe"
  /\ runinfo_ = DefaultRunInfo
  /\ vars_ = Bound
  /\ externals_ = {}
  /\ parsed_ops = <<>>
  /\ program = NewBlock
  /\ main = NewBlock
  /\ locals = NoLocals
  /\ returned = NoTree
  /\ probe = NoProbe

Ranges == {Range(a, b) : a \in 0..MaxIndexValue, b \in 0..MaxIndexValue} \cap
          {r \in [min : 0..MaxIndexValue, max : 0..MaxIndexValue] : r.min <= r.max}

Coefs == {Rat(c, 1) : c \in ((0 - MaxCoef)..MaxCoef) \ {0}} \cup {Rat(1, 2)}

ProbePolys == UNION {[K -> Coefs] : K \in SUBSET {"", "i", "j"}}

IndicesOf(poly) == (DOMAIN poly) \ {""}

IntegerizeProbe ==
  /\ pc = "probe"
  /\ \E poly \in ProbePolys : \E bounds \in [IndicesOf(poly) -> Ranges] :
       probe' = [fn |-> "Integerize", poly |-> poly, bounds |-> bounds,
                 result |-> Integerize(poly, bounds)]
  /\ pc' = "probed"
  /\ UNCHANGED <<runinfo_, vars_, externals_, parsed_ops, program, main, locals, returned>>

SpecIntegerize == ProbeInit /\ [][IntegerizeProbe]_vars

RECURSIVE SumOver(_, _)
SumOver(S, f) ==
  IF S = {} THEN 0 ELSE LET n == CHOOSE n \in S : TRUE IN f[n] + SumOver(S \ {n}, f)

\* The value of a rational polynomial with integral coefficients at x.
EvalPoly(poly, x) ==
  (IF "" \in DOMAIN poly THEN poly[""].n ELSE 0)
    + SumOver(IndicesOf(poly), [n \in IndicesOf(poly) |-> poly[n].n * x[n]])

\* The value of an affine expression at x.
EvalAffine(affine, x) ==
  PolyConstant(affine) + SumOver(IndicesOf(affine), [n \in IndicesOf(affine) |-> affine[n] * x[n]])

\* The index assignments within the bounds.
Box(bounds) == {x \in [DOMAIN bounds -> 0..MaxIndexValue] :
                  \A n \in DOMAIN bounds : bounds[n].min <= x[n] /\ x[n] <= bounds[n].max}

\* C5: for a polynomial of integral coefficients, Integerize gives the constant
\* c0 + sum of c_i * min_i and the coefficient c_i on every index with min_i # max_i,
\* none on an index with min_i = max_i; so the polynomial at x equals the affine
\* expression at the zero-based x_i - min_i, for every x within the bounds.
C5_IntegerizeShifts ==
  (probe.fn = "Integerize" /\ ~NonInteger(probe.poly)) =>
    LET poly == probe.poly
        bounds == probe.bounds
        affine == probe.result.val
    IN /\ probe.result.ok
       /\ PolyConstant(affine) =
            (IF "" \in DOMAIN poly THEN poly[""].n ELSE 0)
              + SumOver(IndicesOf(poly), [n \in IndicesOf(poly) |-> poly[n].n * bounds[n].min])
       /\ \A n \in IndicesOf(poly) :
            IF bounds[n].min # bounds[n].max
              THEN n \in DOMAIN affine /\ affine[n] = poly[n].n
              ELSE n \notin DOMAIN affine
       /\ IndicesOf(affine) \subseteq IndicesOf(poly)
       /\ \A x \in Box(bounds) :
            EvalPoly(poly, x) = EvalAffine(affine, [n \in DOMAIN bounds |-> x[n] - bounds[n].min])

\* A constant term, an index that is a constant other than 0 and one that ranges from
\* other than 0.
C5_Witness ==
  /\ probe.fn = "Integerize"
  /\ DOMAIN probe.poly = {"", "i", "j"}
  /\ ~NonInteger(probe.poly)
  /\ probe.bounds["i"].min = probe.bounds["i"].max /\ probe.bounds["i"].min > 0
  /\ probe.bounds["j"].min < probe.bounds["j"].max /\ probe.bounds["j"].min > 0
  /\ probe.result.ok
  /\ DOMAIN probe.result.val = {"", "j"}

(***************************************************************************)
(* NeedsInitialize on the kernels ProcessContraction builds for an output  *)
(* of rank 2.                                                              *)
(***************************************************************************)
DimPolys ==
  { EmptyPoly, PIdx("i"), PIdx("j"), PSum("i", "j"),
    [n \in {"i"} |-> Rat(MaxCoef, 1)], [n \in {"", "i"} |-> Rat(1, 1)] }

ProbeCons ==
  { <<>>,
    <<SimpleConstraint(PIdx("i"), 1)>>,
    <<SimpleConstraint(PIdx("k"), 0)>>,
    <<SimpleConstraint(PSum("i", "k"), 1)>>,
    <<SimpleConstraint(PIdx("k"), 0), SimpleConstraint(PSum("i", "j"), 2)>> }

ProbeOp(out_spec) ==
  ContractionOp(<<TensorSpec("O", out_spec), TensorSpec("A", <<PIdx("i"), PIdx("k")>>)>>,
                "SUM", "NONE", "")

\* Some index assignment within the bounds writes an element of the output and
\* satisfies the constraints: the bound solver found the system solvable.
Feasible(out_spec, sizes, bounds, simple_cons) ==
  {x \in Box(bounds) :
    /\ \A d \in 1..Len(out_spec) :
         EvalPoly(out_spec[d], x) >= 0 /\ EvalPoly(out_spec[d], x) < sizes[d]
    /\ \A c \in 1..Len(simple_cons) : EvalPoly(simple_cons[c].poly, x) <= simple_cons[c].rhs} # {}

\* The contraction and the constraints the bound solver left, drawn at the start.
NeedsInitializeInit ==
  /\ pc = "probe"
  /\ runinfo_ = DefaultRunInfo
  /\ vars_ = Bound
  /\ externals_ = {}
  /\ parsed_ops = <<>>
  /\ program = NewBlock
  /\ main = NewBlock
  /\ locals = NoLocals
  /\ returned = NoTree
  /\ probe \in {[fn |-> "ProcessContraction", op |-> ProbeOp(<<d1, d2>>), simple_cons |-> cons] :
                  d1 \in DimPolys, d2 \in DimPolys, cons \in ProbeCons}

\* The bounds of i and j and the sizes of the output are drawn, the kernel is built
\* as ProcessContraction builds it (155-218), and NeedsInitialize is applied (220).
NeedsInitializeProbe ==
  /\ pc = "probe"
  /\ \E ri \in Ranges, rj \in {r \in Ranges : r.min = 0},
        s1 \in 1..(MaxIndexValue + 1), s2 \in 1..(MaxIndexValue + 1) :
       LET op == probe.op
           bounds == Bounds3(ri, rj, Range(0, 1))
           bindings == [vars_ EXCEPT !["O"] = TensorBinding(<<s1, s2>>)]
           st == ContractionKernel(SetTag(KernelBlock(main, op), "contraction"), op.c, bounds,
                                   probe.simple_cons, bindings, runinfo_)
       IN /\ Feasible(op.c.specs[1].spec, <<s1, s2>>, bounds, probe.simple_cons)
          /\ probe' = [fn |-> "NeedsInitialize", block |-> st.kernel,
                       out_shape |-> GetShape(bindings, "O"),
                       result |-> NeedsInitialize(st.kernel, GetShape(bindings, "O"))]
  /\ pc' = "probed"
  /\ UNCHANGED <<runinfo_, vars_, externals_, parsed_ops, program, main, locals, returned>>

SpecNeedsInitialize == NeedsInitializeInit /\ [][NeedsInitializeProbe]_vars

IdxNames == {"i", "j", "k"}

OutAccess == probe.block.refs[1].access

OutDims == 1..Len(probe.out_shape.dims)

\* The dimension has size 1 and is accessed at the constant 0.
Trivial(d) == OutAccess[d] = EmptyPoly /\ probe.out_shape.dims[d].size = 1

\* The access of the dimension is one index, with coefficient 1 and no constant offset.
SingleIndex(d) == \E n \in IdxNames : OutAccess[d] = AffineIndex(n)

IndexOfDim(d) == CHOOSE n \in IdxNames : OutAccess[d] = AffineIndex(n)

\* ... and the declared range of the index is the size of the dimension.
FullRange(d) ==
  /\ SingleIndex(d)
  /\ \E q \in 1..Len(probe.block.idxs) :
       probe.block.idxs[q] = Index(IndexOfDim(d), probe.out_shape.dims[d].size)

SharedIndex ==
  \E d \in OutDims, e \in OutDims :
    d # e /\ SingleIndex(d) /\ SingleIndex(e) /\ IndexOfDim(d) = IndexOfDim(e)

OutputIndices == {IndexOfDim(d) : d \in {e \in OutDims : SingleIndex(e)}}

ConstraintsOf(block) == {block.constraints[c] : c \in 1..Len(block.constraints)}

\* C2, as stated: NeedsInitialize is true when (a) the access of some output dimension
\* is not one full-range index of coefficient 1 and offset 0, or (b) two output
\* dimensions have the same index, or (c) a constraint touches only indices that are
\* not output indices; it is false only when every output dimension is one full-range
\* index of its own and no constraint is on output indices alone.
C2_AsStated ==
  probe.fn = "NeedsInitialize" =>
    /\ ( \/ \E d \in OutDims : ~FullRange(d)
         \/ SharedIndex
         \/ \E con \in ConstraintsOf(probe.block) :
              IndicesOf(con) # {} /\ IndicesOf(con) \cap OutputIndices = {} )
       => probe.result
    /\ ~probe.result =>
         /\ \A d \in OutDims : FullRange(d)
         /\ ~SharedIndex
         /\ \A con \in ConstraintsOf(probe.block) : ~(IndicesOf(con) \subseteq OutputIndices)

\* C2, amended: NeedsInitialize is true exactly when (a) some output dimension, other
\* than one of size 1 accessed at the constant 0, is not accessed by one full-range
\* index of coefficient 1 and offset 0, or (b) two output dimensions have the same
\* index, or (c) some constraint has no index outside the output indices.
C2_NeedsInitialize ==
  probe.fn = "NeedsInitialize" =>
    probe.result =
      ( \/ \E d \in OutDims : ~Trivial(d) /\ ~FullRange(d)
        \/ SharedIndex
        \/ \E con \in ConstraintsOf(probe.block) : IndicesOf(con) \subseteq OutputIndices )

\* A dimension of size 1 accessed at 0, the other dimension a full-range index, and a
\* constraint on that output index alone: the constraint decides.
C2_Witness ==
  /\ probe.fn = "NeedsInitialize"
  /\ probe.result
  /\ Trivial(1)
  /\ FullRange(2)
  /\ Len(probe.block.constraints) = 2
  /\ \E con \in ConstraintsOf(probe.block) : IndicesOf(con) = {"j"}
  /\ \E con \in ConstraintsOf(probe.block) : IndicesOf(con) = {"k"}

(***************************************************************************)
(* The indices a kernel uses and the indices it declares.                  *)
(***************************************************************************)
\* The index names with a coefficient in an access of a refinement or in a constraint.
UsedIndices(kernel) ==
  UNION ( {UNION {IndicesOf(kernel.refs[q].access[d]) : d \in 1..Len(kernel.refs[q].access)} :
             q \in 1..Len(kernel.refs)}
          \cup {IndicesOf(kernel.constraints[c]) : c \in 1..Len(kernel.constraints)} )

\* The index names of the index list with a range greater than 1.
DeclaredIndices(kernel) ==
  {kernel.idxs[q].name : q \in {r \in 1..Len(kernel.idxs) : kernel.idxs[r].range > 1}}

\* The index names in the polynomials of the contraction a kernel was made for.
SpecIndices(kernel) ==
  UNION {UNION {IndicesOf(OpOf(kernel).c.specs[i].spec[d]) :
                  d \in 1..Len(OpOf(kernel).c.specs[i].spec)} :
           i \in 1..Len(OpOf(kernel).c.specs)}

\* Every dimension of size greater than 1 of a tensor input of an elementwise kernel
\* is aligned with an output dimension of size greater than 1.
InputsAligned(kernel) ==
  \A q \in TensorInputRefs(kernel) :
    LET dims == vars_[kernel.refs[q].from].shape.dims
        out == vars_[OpOf(kernel).output].shape.dims
        k == Len(out) - Len(dims)
    IN \A j \in 1..Len(dims) : dims[j].size > 1 => out[k + j].size > 1

\* C11: in every kernel of the tree Run() hands back, every index with a coefficient in
\* an access of a refinement or in a constraint is in the kernel's index list with a
\* range greater than 1; for an elementwise kernel, provided every input dimension of
\* size greater than 1 is aligned with an output dimension of size greater than 1.
C11_UsedIndicesDeclared ==
  pc = "done" =>
    LET mn == returned.tree.stmts[1]
    IN /\ \A p \in KernelsOf(mn, "contraction") :
            UsedIndices(mn.stmts[p]) \subseteq DeclaredIndices(mn.stmts[p])
       /\ \A p \in KernelsOf(mn, "eltwise") :
            InputsAligned(mn.stmts[p]) =>
              UsedIndices(mn.stmts[p]) \subseteq DeclaredIndices(mn.stmts[p])

\* A tree with a contraction kernel one of whose indices has a single value and is
\* neither used nor declared while another is, and an elementwise kernel with an input
\* dimension of size 1 and an index in use.
C11_Witness ==
  /\ pc = "done"
  /\ \E p \in KernelsOf(returned.tree.stmts[1], "contraction") :
       LET kernel == returned.tree.stmts[1].stmts[p]
       IN /\ UsedIndices(kernel) # {}
          /\ SpecIndices(kernel) \ DeclaredIndices(kernel) # {}
          /\ Len(kernel.stmts) > 0
  /\ \E p \in KernelsOf(returned.tree.stmts[1], "eltwise") :
       LET kernel == returned.tree.stmts[1].stmts[p]
       IN /\ InputsAligned(kernel)
          /\ UsedIndices(kernel) # {}
          /\ \E q \in TensorInputRefs(kernel) :
               \E j \in 1..Len(kernel.refs[q].access) :
                 vars_[kernel.refs[q].from].shape.dims[j].size = 1

====
